---- MODULE Spec2Model ----
(***************************************************************************)
(* Model of pval's Quantity class (src/quantity.py): a magnitude tied to a *)
(* 7-tuple of exponents over the fundamental measurements, its three       *)
(* construction modes, the collapse to a plain number, and its operators.  *)
(*                                                                         *)
(* Numbers (magnitudes and exponents) are exact rationals <<n, d>> in      *)
(* lowest terms with d > 0.  Python's int/float distinction and float      *)
(* rounding are not modelled: 5 and 5.0 are the same number here, as they  *)
(* are under Python's ==.                                                  *)
(***************************************************************************)
EXTENDS Integers, Sequences, FiniteSets, TLC

VARIABLES cur, op, args, out, hist

vars == <<cur, op, args, out, hist>>

(***************************************************************************)
(* Bounds of the model.                                                    *)
(***************************************************************************)
\* largest |numerator| of a magnitude
MaxNum == 2
\* largest denominator of a magnitude
MaxDen == 2
\* largest sum of |exponent| over the 7 axes of a unit
MaxExp == 2
\* largest denominator of an exponent
MaxExpDen == 2

(***************************************************************************)
(* Python numbers.                                                         *)
(***************************************************************************)
IAbs(i) == IF i < 0 THEN -i ELSE i

RECURSIVE GCD(_, _)
GCD(a, b) == IF b = 0 THEN a ELSE GCD(b, a % b)

\* the number n/d, d # 0, in lowest terms
Rat(n, d) ==
  LET s == IF d < 0 THEN -1 ELSE 1
      g == GCD(IAbs(n), IAbs(d))
  IN  <<(s * n) \div g, (s * d) \div g>>

Whole(n) == <<n, 1>>
Zero == Whole(0)
One == Whole(1)

\* a result outside the rationals (an irrational root, a complex number)
NotRational == <<0, 0>>

RatAdd(a, b) == Rat(a[1] * b[2] + b[1] * a[2], a[2] * b[2])
RatNeg(a) == <<-a[1], a[2]>>
RatSub(a, b) == RatAdd(a, RatNeg(b))
RatMul(a, b) == Rat(a[1] * b[1], a[2] * b[2])
RatAbs(a) == <<IAbs(a[1]), a[2]>>
RatLt(a, b) == a[1] * b[2] < b[1] * a[2]
RatLe(a, b) == a[1] * b[2] <= b[1] * a[2]
\* a / b, b # 0
RatDiv(a, b) == Rat(a[1] * b[2], a[2] * b[1])
\* a // b rounded toward zero instead of down
RatTruncDiv(a, b) ==
  LET q == RatDiv(a, b)
  IN  Whole(IF q[1] < 0 THEN -((-q[1]) \div q[2]) ELSE q[1] \div q[2])

\* a // b, b # 0: the floor of the quotient
RatFloorDiv(a, b) == LET q == RatDiv(a, b) IN Whole(q[1] \div q[2])

RECURSIVE IPow(_, _)
IPow(b, e) == IF e = 0 THEN 1 ELSE b * IPow(b, e - 1)

\* a ** n for an integer n, not (a = 0 and n < 0)
RatPow(a, n) ==
  IF n >= 0 THEN Rat(IPow(a[1], n), IPow(a[2], n))
  ELSE Rat(IPow(a[2], -n), IPow(a[1], -n))

\* the non-negative k-th root of a >= 0 (k >= 1), when it is rational
RootSet(a, k) ==
  {r \in (0 .. a[1]) \X (1 .. a[2]) : IPow(r[1], k) = a[1] /\ IPow(r[2], k) = a[2]}

\* a ** (1/n) for an integer n # 0, not (a = 0 and n < 0)
RatRoot(a, n) ==
  IF n = 1 THEN a
  ELSE IF n = -1 THEN RatDiv(One, a)
  ELSE IF a[1] < 0 \/ RootSet(a, IAbs(n)) = {} THEN NotRational
  ELSE LET r == CHOOSE r \in RootSet(a, IAbs(n)) : TRUE
       IN  IF n > 0 THEN Rat(r[1], r[2]) ELSE Rat(r[2], r[1])

(***************************************************************************)
(* Python values and call outcomes.                                        *)
(***************************************************************************)
None == [kind |-> "None"]
Number(v) == [kind |-> "number", num |-> v]
Tuple(s) == [kind |-> "tuple", items |-> s]
Bool(b) == [kind |-> "bool", b |-> b]
\* the object super().__new__(cls) returns, its slots not yet set
Object == [kind |-> "object"]
\* a Quantity instance with its two slots
Instance(v, u) == [kind |-> "Quantity", value |-> v, unit |-> u]

Return(v) == [kind |-> "return", val |-> v]
Raise(e) == [kind |-> "raise", exc |-> e]

isinstance(x) == x.kind = "Quantity"

\* the keyword exponents m, kg, s, C, K, cand, mol at their defaults
NoKw == [i \in 1 .. 7 |-> Zero]

(***************************************************************************)
(* Construction.                                                           *)
(***************************************************************************)
\* __new__ without the collapse: an instance whatever the exponents are
__new__NoCollapse(value, unit, kw) ==
  IF unit.kind = "number" THEN Raise("TypeError") ELSE Return(Object)

__new__(value, unit, kw) ==
  IF unit.kind = "number" THEN Raise("TypeError")
  ELSE LET u == IF unit.kind = "None" THEN kw
                ELSE IF isinstance(unit) THEN unit.unit
                ELSE unit.items
       IN  IF \E i \in DOMAIN u : u[i] # Zero
           THEN Return(Object)
           ELSE Return(Number(value))

__init__(value, unit, kw) ==
  IF unit.kind = "None" THEN Return(Instance(value, kw))
  ELSE IF isinstance(unit) THEN Return(Instance(RatMul(value, unit.value), unit.unit))
  ELSE IF Len(unit.items) = 7 THEN Return(Instance(value, unit.items))
  ELSE Raise("TypeError")

\* the call Quantity(value, unit, m=.., ..): __new__, then __init__ on an instance
Quantity(value, unit, kw) ==
  LET made == __new__(value, unit, kw)
  IN  IF made.kind = "raise" THEN made
      ELSE IF made.val = Object THEN __init__(value, unit, kw)
      ELSE made

(***************************************************************************)
(* Compatibility.                                                          *)
(***************************************************************************)
\* other.unit raises AttributeError on a plain number; the except clause
\* turns that into False
compatible(self, other) ==
  IF other.kind = "Quantity" THEN self.unit = other.unit ELSE FALSE

assert_compatible(self, other) ==
  IF ~compatible(self, other) THEN Raise("IncompatibleUnits") ELSE Return(None)

(***************************************************************************)
(* Arithmetic on numbers that can raise.                                   *)
(***************************************************************************)
TrueDiv(a, b) == IF b = Zero THEN Raise("ZeroDivisionError") ELSE Return(RatDiv(a, b))
FloorDiv(a, b) == IF b = Zero THEN Raise("ZeroDivisionError") ELSE Return(RatFloorDiv(a, b))
Power(a, n) == IF a = Zero /\ n < 0 THEN Raise("ZeroDivisionError") ELSE Return(RatPow(a, n))

\* the call Quantity(v, unit=u) on the outcome v of a magnitude computation
Wrap(v, u) == IF v.kind = "raise" THEN v ELSE Quantity(v.val, Tuple(u), NoKw)

\* tuple(f(a, b) for a, b in zip(x, y))
Min(a, b) == IF a < b THEN a ELSE b
ZipAdd(x, y) == [i \in 1 .. Min(Len(x), Len(y)) |-> RatAdd(x[i], y[i])]
ZipSub(x, y) == [i \in 1 .. Min(Len(x), Len(y)) |-> RatSub(x[i], y[i])]
\* tuple(-t for t in x)
NegUnit(x) == [i \in 1 .. Len(x) |-> RatNeg(x[i])]

(***************************************************************************)
(* The operators of a Quantity self.                                       *)
(***************************************************************************)
__abs__(self) == Quantity(RatAbs(self.value), Tuple(self.unit), NoKw)

__add__(self, other) ==
  IF assert_compatible(self, other).kind = "raise" THEN assert_compatible(self, other)
  ELSE IF ~isinstance(other) THEN Raise("AttributeError")
  ELSE Quantity(RatAdd(self.value, other.value), Tuple(self.unit), NoKw)

\* __radd__ taking a plain number for a magnitude in self's unit
__radd__Dimensionless(self, other) ==
  IF isinstance(other) THEN __add__(self, other)
  ELSE Quantity(RatAdd(self.value, other.num), Tuple(self.unit), NoKw)

__radd__(self, other) == __add__(self, other)

__neg__(self) == Quantity(RatNeg(self.value), Tuple(self.unit), NoKw)

\* __sub__ with its operands exchanged
__sub__Swapped(self, other) ==
  IF assert_compatible(self, other).kind = "raise" THEN assert_compatible(self, other)
  ELSE IF ~isinstance(other) THEN Raise("AttributeError")
  ELSE Quantity(RatSub(other.value, self.value), Tuple(self.unit), NoKw)

__sub__(self, other) ==
  IF assert_compatible(self, other).kind = "raise" THEN assert_compatible(self, other)
  ELSE IF ~isinstance(other) THEN Raise("AttributeError")
  ELSE Quantity(RatSub(self.value, other.value), Tuple(self.unit), NoKw)

__rsub__(self, other) ==
  IF assert_compatible(self, other).kind = "raise" THEN assert_compatible(self, other)
  ELSE IF ~isinstance(other) THEN Raise("AttributeError")
  ELSE Quantity(RatSub(other.value, self.value), Tuple(self.unit), NoKw)

\* __mul__ asking for compatible operands as __add__ does
__mul__Checked(self, other) ==
  IF isinstance(other) /\ ~compatible(self, other) THEN Raise("IncompatibleUnits")
  ELSE IF isinstance(other)
  THEN Quantity(RatMul(self.value, other.value), Tuple(ZipAdd(self.unit, other.unit)), NoKw)
  ELSE Quantity(RatMul(self.value, other.num), Tuple(self.unit), NoKw)

__mul__(self, other) ==
  IF isinstance(other)
  THEN Quantity(RatMul(self.value, other.value), Tuple(ZipAdd(self.unit, other.unit)), NoKw)
  ELSE Quantity(RatMul(self.value, other.num), Tuple(self.unit), NoKw)

__rmul__(self, other) == __mul__(self, other)

\* invert without the negation of the exponents
invertKeepsUnit(self) == Wrap(TrueDiv(One, self.value), self.unit)

invert(self) == Wrap(TrueDiv(One, self.value), NegUnit(self.unit))

\* __truediv__ adding the exponents as __mul__ does
__truediv__AddsUnits(self, other) ==
  IF isinstance(other)
  THEN Wrap(TrueDiv(self.value, other.value), ZipAdd(self.unit, other.unit))
  ELSE Wrap(TrueDiv(self.value, other.num), self.unit)

__truediv__(self, other) ==
  IF isinstance(other)
  THEN Wrap(TrueDiv(self.value, other.value), ZipSub(self.unit, other.unit))
  ELSE Wrap(TrueDiv(self.value, other.num), self.unit)

__rtruediv__(self, other) ==
  IF isinstance(other)
  THEN Wrap(TrueDiv(other.value, self.value), ZipSub(other.unit, self.unit))
  ELSE Wrap(TrueDiv(other.num, self.value), NegUnit(self.unit))

__floordiv__(self, other) ==
  IF isinstance(other)
  THEN Wrap(FloorDiv(self.value, other.value), ZipSub(self.unit, other.unit))
  ELSE Wrap(FloorDiv(self.value, other.num), self.unit)

__rfloordiv__(self, other) ==
  IF isinstance(other)
  THEN Wrap(FloorDiv(other.value, self.value), ZipSub(other.unit, self.unit))
  ELSE Wrap(FloorDiv(other.num, self.value), NegUnit(self.unit))

__pow__(self, n) ==
  Wrap(Power(self.value, n), [i \in 1 .. Len(self.unit) |-> RatMul(Whole(n), self.unit[i])])

\* root taking the root of the magnitude and leaving the exponents alone
rootKeepsUnit(self, n) ==
  IF n = 0 THEN Raise("ZeroDivisionError")
  ELSE IF self.value = Zero /\ n < 0 THEN Raise("ZeroDivisionError")
  ELSE Quantity(RatRoot(self.value, n), Tuple(self.unit), NoKw)

\* t/n raises for n = 0 while the unit is built; then value ** (1/n)
root(self, n) ==
  IF n = 0 THEN Raise("ZeroDivisionError")
  ELSE IF self.value = Zero /\ n < 0 THEN Raise("ZeroDivisionError")
  ELSE Quantity(RatRoot(self.value, n),
                Tuple([i \in 1 .. Len(self.unit) |-> RatDiv(self.unit[i], Whole(n))]), NoKw)

sqrt(self) == root(self, 2)

\* __eq__ answering False for operands of different units
__eq__Lenient(self, other) ==
  IF ~isinstance(other) THEN Return(Bool(FALSE))
  ELSE Return(Bool(self.value = other.value /\ self.unit = other.unit))

__eq__(self, other) ==
  IF assert_compatible(self, other).kind = "raise" THEN assert_compatible(self, other)
  ELSE IF ~isinstance(other) THEN Raise("AttributeError")
  ELSE Return(Bool(self.value = other.value /\ self.unit = other.unit))

__ne__(self, other) ==
  LET e == __eq__(self, other)
  IN  IF e.kind = "raise" THEN e ELSE Return(Bool(~e.val.b))

__lt__(self, other) ==
  IF assert_compatible(self, other).kind = "raise" THEN assert_compatible(self, other)
  ELSE IF ~isinstance(other) THEN Raise("AttributeError")
  ELSE Return(Bool(RatLt(self.value, other.value)))

__le__(self, other) ==
  IF assert_compatible(self, other).kind = "raise" THEN assert_compatible(self, other)
  ELSE IF ~isinstance(other) THEN Raise("AttributeError")
  ELSE Return(Bool(RatLe(self.value, other.value)))

__gt__(self, other) ==
  IF assert_compatible(self, other).kind = "raise" THEN assert_compatible(self, other)
  ELSE IF ~isinstance(other) THEN Raise("AttributeError")
  ELSE Return(Bool(RatLt(other.value, self.value)))

__ge__(self, other) ==
  IF assert_compatible(self, other).kind = "raise" THEN assert_compatible(self, other)
  ELSE IF ~isinstance(other) THEN Raise("AttributeError")
  ELSE Return(Bool(RatLe(other.value, self.value)))

(***************************************************************************)
(* Inputs and the range of the model.                                      *)
(***************************************************************************)
MagIn == {Whole(-1), Whole(0), Whole(1), Whole(2)}

KwIn == {[i \in 1 .. 7 |-> IF i = 1 THEN Whole(m) ELSE IF i = 3 THEN Whole(s) ELSE Zero] :
           m \in -1 .. 1, s \in -1 .. 1}

Zeros(n) == [i \in 1 .. n |-> Zero]
TupleIn == {Zeros(n) : n \in {0, 3, 7, 8}}
           \cup {[Zeros(n) EXCEPT ![3] = One] : n \in {3, 7, 8}}
           \cup {[Zeros(7) EXCEPT ![1] = Whole(-1)]}

ExpSum(u) ==
  LET RECURSIVE S(_)
      S(i) == IF i = 0 THEN Zero ELSE RatAdd(RatAbs(u[i]), S(i - 1))
  IN  S(Len(u))

InRange(v) ==
  IF v.kind = "number" THEN IAbs(v.num[1]) <= MaxNum /\ v.num[2] \in 1 .. MaxDen
  ELSE /\ IAbs(v.value[1]) <= MaxNum /\ v.value[2] \in 1 .. MaxDen
       /\ \A i \in DOMAIN v.unit : v.unit[i][2] <= MaxExpDen
       /\ RatLe(ExpSum(v.unit), Whole(MaxExp))

\* the caller is between calls (op = "idle") and makes one: the call and its
\* outcome are recorded.  Calls whose result leaves the range are not made.
Step(name, a, o, h) ==
  /\ op = "idle"
  /\ o.kind = "return" /\ o.val.kind \in {"number", "Quantity"} => InRange(o.val)
  /\ op' = name
  /\ args' = a
  /\ out' = o
  /\ hist' = h
  /\ cur' = cur

Init ==
  /\ op = "idle"
  /\ args = None
  /\ out = None
  /\ cur = Quantity(One, None, NoKw).val
  /\ hist = None

\* the caller goes on with the value the call returned, or with the value it
\* had when the call raised or returned a truth value; it remembers the
\* operand and exponent of a power it has just taken
Continue ==
  /\ op # "idle"
  /\ cur' = IF out.kind = "return" /\ out.val.kind \in {"number", "Quantity"} THEN out.val ELSE cur
  /\ hist' = IF op = "pow" /\ out.kind = "return" THEN [self |-> args.self, n |-> args.n] ELSE None
  /\ op' = "idle"
  /\ args' = None
  /\ out' = None

\* mode 1: Quantity(v, m=.., s=..)
New1 ==
  \E v \in MagIn, kw \in KwIn :
    Step("new", [value |-> v, unit |-> None, kw |-> kw], Quantity(v, None, kw), None)

\* mode 2: Quantity(v, unit=cur), the current value as the template
New2 ==
  \E v \in MagIn :
    Step("new", [value |-> v, unit |-> cur, kw |-> NoKw], Quantity(v, cur, NoKw), None)

\* mode 3: Quantity(v, unit=t)
New3 ==
  \E v \in MagIn, t \in TupleIn :
    Step("new", [value |-> v, unit |-> Tuple(t), kw |-> NoKw], Quantity(v, Tuple(t), NoKw), None)

\* the other operand of a binary operator on self: a plain number, self itself,
\* a Quantity of self's unit, or a Quantity of another unit
OtherIn(self) ==
  {Number(k) : k \in MagIn}
  \cup {self}
  \cup {Instance(k, self.unit) : k \in {Whole(0), Whole(2)}}
  \cup {Instance(Whole(2), [NoKw EXCEPT ![1] = One]), Instance(Whole(-1), [NoKw EXCEPT ![3] = One])}

PowIn == -2 .. 2

Binary(name, o, result) == Step(name, [self |-> cur, other |-> o], result, None)
Unary(name, result) == Step(name, [self |-> cur], result, None)

Abs == isinstance(cur) /\ Unary("abs", __abs__(cur))
Neg == isinstance(cur) /\ Unary("neg", __neg__(cur))
Invert == isinstance(cur) /\ Unary("invert", invert(cur))
Sqrt == isinstance(cur) /\ Unary("sqrt", sqrt(cur))
Add == isinstance(cur) /\ \E o \in OtherIn(cur) : Binary("add", o, __add__(cur, o))
RAdd == isinstance(cur) /\ \E o \in OtherIn(cur) : Binary("radd", o, __radd__(cur, o))
Sub == isinstance(cur) /\ \E o \in OtherIn(cur) : Binary("sub", o, __sub__(cur, o))
RSub == isinstance(cur) /\ \E o \in OtherIn(cur) : Binary("rsub", o, __rsub__(cur, o))
Mul == isinstance(cur) /\ \E o \in OtherIn(cur) : Binary("mul", o, __mul__(cur, o))
RMul == isinstance(cur) /\ \E o \in OtherIn(cur) : Binary("rmul", o, __rmul__(cur, o))
TrueDivide == isinstance(cur) /\ \E o \in OtherIn(cur) : Binary("truediv", o, __truediv__(cur, o))
RTrueDivide == isinstance(cur) /\ \E o \in OtherIn(cur) : Binary("rtruediv", o, __rtruediv__(cur, o))
FloorDivide == isinstance(cur) /\ \E o \in OtherIn(cur) : Binary("floordiv", o, __floordiv__(cur, o))
RFloorDivide == isinstance(cur) /\ \E o \in OtherIn(cur) : Binary("rfloordiv", o, __rfloordiv__(cur, o))
Eq == isinstance(cur) /\ \E o \in OtherIn(cur) : Binary("eq", o, __eq__(cur, o))
Ne == isinstance(cur) /\ \E o \in OtherIn(cur) : Binary("ne", o, __ne__(cur, o))
Lt == isinstance(cur) /\ \E o \in OtherIn(cur) : Binary("lt", o, __lt__(cur, o))
Le == isinstance(cur) /\ \E o \in OtherIn(cur) : Binary("le", o, __le__(cur, o))
Gt == isinstance(cur) /\ \E o \in OtherIn(cur) : Binary("gt", o, __gt__(cur, o))
Ge == isinstance(cur) /\ \E o \in OtherIn(cur) : Binary("ge", o, __ge__(cur, o))

Pow ==
  isinstance(cur) /\ \E n \in PowIn : Step("pow", [self |-> cur, n |-> n], __pow__(cur, n), None)

\* hist still names the power call that produced root's operand, if one did
Root ==
  isinstance(cur) /\ \E n \in PowIn :
    Step("root", [self |-> cur, n |-> n], root(cur, n),
         hist)

Next ==
  \/ New1 \/ New2 \/ New3
  \/ Abs \/ Neg \/ Invert \/ Sqrt
  \/ Add \/ RAdd \/ Sub \/ RSub
  \/ Mul \/ RMul
  \/ TrueDivide \/ RTrueDivide \/ FloorDivide \/ RFloorDivide
  \/ Pow \/ Root
  \/ Eq \/ Ne \/ Lt \/ Le \/ Gt \/ Ge
  \/ Continue

Spec == Init /\ [][Next]_vars

(***************************************************************************)
(* Properties.                                                             *)
(***************************************************************************)
AllZero(u) == \A i \in DOMAIN u : u[i] = Zero
Returned == out.kind = "return"
\* a plain number, or a Quantity of 7 exponents that are not all zero
WellFormed(v) ==
  \/ v.kind = "number"
  \/ v.kind = "Quantity" /\ Len(v.unit) = 7 /\ ~AllZero(v.unit)
\* what a magnitude v with exponents u is after the collapse rule
Collapsed(v, u) == IF AllZero(u) THEN Number(v) ELSE Instance(v, u)
ValueOps == {"new", "abs", "neg", "add", "radd", "sub", "rsub", "mul", "rmul", "invert",
             "truediv", "rtruediv", "floordiv", "rfloordiv", "pow", "root", "sqrt"}
Checked == {"add", "sub", "eq", "ne", "lt", "le", "gt", "ge"}
SameUnit == isinstance(args.other) /\ args.other.unit = args.self.unit

\* C1: every value a construction or an operator returns, and every value the
\* caller holds, is a plain number or a Quantity with exactly 7 exponents of
\* which one at least is nonzero; a construction from all-zero exponents
\* (keywords or tuple) returns the plain number it was given.
C1_CollapseInvariant ==
  /\ WellFormed(cur)
  /\ op \in ValueOps /\ Returned => WellFormed(out.val)
  /\ op = "new" /\ args.unit.kind = "None" /\ AllZero(args.kw)
       => out = Return(Number(args.value))
  /\ op = "new" /\ args.unit.kind = "tuple" /\ AllZero(args.unit.items)
       => out = Return(Number(args.value))

\* an operator on two Quantities returned a plain number
C1_Witness ==
  /\ op \in {"mul", "truediv", "floordiv"} /\ isinstance(args.other)
  /\ Returned /\ out.val.kind = "number"

\* C2: the sum and the difference of two Quantities of equal units are
\* Quantities of that unit whose magnitude is the sum, the difference, of the
\* magnitudes, also when that magnitude is 0.
C2_AddSub ==
  /\ op = "add" /\ SameUnit
       => out = Return(Instance(RatAdd(args.self.value, args.other.value), args.self.unit))
  /\ op = "sub" /\ SameUnit
       => out = Return(Instance(RatSub(args.self.value, args.other.value), args.self.unit))

\* a difference of magnitude 0 that is still a Quantity
C2_Witness ==
  /\ op = "sub" /\ SameUnit /\ args.self.value # Zero
  /\ Returned /\ isinstance(out.val) /\ out.val.value = Zero

\* C3: +, -, ==, !=, <, <=, >, >= on a Quantity and an operand of another
\* unit (a Quantity, or a plain number) raise IncompatibleUnits; on equal
\* units == compares magnitude and unit and the orderings compare magnitudes.
C3_Incompatible ==
  /\ op \in Checked /\ ~SameUnit => out = Raise("IncompatibleUnits")
  /\ op = "eq" /\ SameUnit
       => out = Return(Bool(args.self.value = args.other.value /\ args.self.unit = args.other.unit))
  /\ op = "ne" /\ SameUnit => out = Return(Bool(args.self.value # args.other.value))
  /\ op = "lt" /\ SameUnit => out = Return(Bool(RatLt(args.self.value, args.other.value)))
  /\ op = "le" /\ SameUnit => out = Return(Bool(~RatLt(args.other.value, args.self.value)))
  /\ op = "gt" /\ SameUnit => out = Return(Bool(RatLt(args.other.value, args.self.value)))
  /\ op = "ge" /\ SameUnit => out = Return(Bool(~RatLt(args.self.value, args.other.value)))

\* == on two Quantities of different units raised
C3_Witness ==
  op = "eq" /\ isinstance(args.other) /\ ~SameUnit /\ out = Raise("IncompatibleUnits")

\* C4: a * b has the product of the magnitudes and, axis by axis, the sum of
\* the exponents (a plain number when every sum is 0); a * k and k * a for a
\* plain number k keep a's unit and have magnitude a.value * k;
\* multiplication never raises.
C4_Multiply ==
  /\ op \in {"mul", "rmul"} => Returned
  /\ op = "mul" /\ isinstance(args.other)
       => LET u == [i \in 1 .. 7 |-> RatAdd(args.self.unit[i], args.other.unit[i])]
          IN  out.val = Collapsed(RatMul(args.self.value, args.other.value), u)
  /\ op \in {"mul", "rmul"} /\ args.other.kind = "number"
       => out.val = Instance(RatMul(args.self.value, args.other.num), args.self.unit)

\* a product of two Quantities of different units
C4_Witness ==
  op = "mul" /\ isinstance(args.other) /\ ~SameUnit /\ Returned /\ isinstance(out.val)

\* the divisor's magnitude
Divisor == IF isinstance(args.other) THEN args.other.value ELSE args.other.num
\* the result's magnitude
Quotient == IF isinstance(out.val) THEN out.val.value ELSE out.val.num

\* C5: a / b and a // b raise nothing but ZeroDivisionError (for a divisor of
\* magnitude 0); their result has a's exponents minus b's when b is a
\* Quantity and a's exponents when b is a plain number; its magnitude q is
\* the quotient (q * divisor = a.value) for /, and the floor of the quotient
\* (an integer q with q <= a.value / divisor < q + 1) for //.
C5_Divide ==
  op \in {"truediv", "floordiv"} =>
    /\ Returned <=> Divisor # Zero
    /\ ~Returned => out = Raise("ZeroDivisionError")
    /\ Returned /\ isinstance(args.other)
         => out.val = Collapsed(Quotient,
                                [i \in 1 .. 7 |-> RatSub(args.self.unit[i], args.other.unit[i])])
    /\ Returned /\ ~isinstance(args.other) => out.val = Instance(Quotient, args.self.unit)
    /\ Returned /\ op = "truediv" => RatMul(Quotient, Divisor) = args.self.value
    /\ Returned /\ op = "floordiv"
         => /\ Quotient[2] = 1
            /\ RatLe(Quotient, RatDiv(args.self.value, Divisor))
            /\ RatLt(RatDiv(args.self.value, Divisor), RatAdd(Quotient, One))

\* a floor division whose quotient is negative and not whole
C5_Witness ==
  /\ op = "floordiv" /\ Returned /\ isinstance(args.other) /\ ~SameUnit
  /\ RatLt(RatDiv(args.self.value, Divisor), Zero)
  /\ RatDiv(args.self.value, Divisor)[2] # 1

SameQuantity == SameUnit /\ args.other.value = args.self.value

\* C6 as stated: a / a is the plain number 1 for every Quantity a.
C6_AsStated == op = "truediv" /\ SameQuantity => out = Return(Number(One))

\* C6: a / a is the plain number 1 for every Quantity a whose magnitude is
\* not 0; for magnitude 0 the division raises ZeroDivisionError.
C6_SelfQuotient ==
  op = "truediv" /\ SameQuantity =>
    out = IF args.self.value = Zero THEN Raise("ZeroDivisionError") ELSE Return(Number(One))

\* a Quantity of magnitude other than 1 divided by itself
C6_Witness ==
  /\ op = "truediv" /\ SameQuantity /\ args.self.value \notin {Zero, One}
  /\ out = Return(Number(One))

\* C7: a construction from a tuple that has not exactly 7 elements raises.
C7_LengthChecked ==
  op = "new" /\ args.unit.kind = "tuple" /\ Len(args.unit.items) # 7 => out.kind = "raise"

IntegerUnit(q) == \A i \in DOMAIN q.unit : q.unit[i][2] = 1
\* root(_, n) was called on what power(hist.self, n) returned
RootOfPower == op = "root" /\ hist # None /\ hist.n = args.n /\ args.n # 0

C9_AsStated ==
  /\ op = "rtruediv" /\ args.other.kind = "number"
       => /\ Returned /\ isinstance(out.val)
          /\ out.val.unit = NegUnit(args.self.unit)
          /\ RatMul(out.val.value, args.self.value) = args.other.num
  /\ op = "invert" => Returned /\ out = __rtruediv__(args.self, Number(One))

\* C9: for a plain number k and a Quantity a whose magnitude is not 0, k / a
\* is a Quantity with a's exponents negated and magnitude k / a.value; for
\* magnitude 0 it raises ZeroDivisionError; invert(a) has the outcome of 1 / a
\* in both cases.
C9_Reciprocal ==
  /\ op = "rtruediv" /\ args.other.kind = "number"
       => IF args.self.value = Zero THEN out = Raise("ZeroDivisionError")
          ELSE /\ Returned /\ isinstance(out.val)
               /\ \A i \in 1 .. 7 : out.val.unit[i] = RatSub(Zero, args.self.unit[i])
               /\ RatMul(out.val.value, args.self.value) = args.other.num
  /\ op = "invert" => out = __rtruediv__(args.self, Number(One))

\* 2 / a for a Quantity a
C9_Witness ==
  /\ op = "rtruediv" /\ args.other = Number(Whole(2))
  /\ Returned /\ isinstance(out.val) /\ out.val.value \notin {Zero, Whole(2)}

\* C10: n + q and q + n for a plain number n and a Quantity q have the same
\* outcome, IncompatibleUnits, and n - q raises it too before any value is
\* computed.
C10_Reflected ==
  op \in {"add", "radd", "rsub"} /\ args.other.kind = "number"
    => out = Raise("IncompatibleUnits")

\* n + q raised IncompatibleUnits
C10_Witness ==
  op = "radd" /\ args.other.kind = "number" /\ out = Raise("IncompatibleUnits")
====
